---- MODULE Spec2Model ----
(***************************************************************************)
(* Model of the voice-session orchestrator hook useGeminiLive              *)
(* (src/unnamed/part_000): the lifecycle state machine, the live-session   *)
(* (Gemini) pipeline, the turn-based (OpenAI/Groq + Web Speech) pipeline,  *)
(* the playback cursor and the transcript buffers.                         *)
(*                                                                         *)
(* Every connect() call that dispatches to a pipeline gets a session       *)
(* number s; the objects that call creates (audio contexts, microphone     *)
(* stream, processing node, remote session, recognition engine) are named  *)
(* by s.  A ref holds NULL or the number of the object it points to.       *)
(* The browser and the remote services are the environment: their state    *)
(* (is a context closed, is an engine running, what is in flight) is kept  *)
(* beside the hook's refs so that leaks and stale callbacks are visible.   *)
(* Log timestamps (new Date()) are left out of the log entries.            *)
(***************************************************************************)
EXTENDS Integers, Sequences, FiniteSets, TLC

\* ---------------------------------------------------------------- bounds
MaxSessions == 2     \* connect() calls that reach a pipeline
MaxLog == 6          \* log entries, in the specifications of the live session
MaxLogTurn == 5      \* log entries, in the specifications of the turn-based pipeline
MaxLogBoth == 4      \* log entries, in the specifications with both pipelines
MaxChunks == 2       \* inbound audio payloads, in the specifications of the live session
MaxChunksBoth == 1   \* inbound audio payloads, in the specifications with both pipelines
MaxTime == 1         \* ticks of an output context's clock
MaxDur == 1          \* longest audio chunk
MaxStr == 2          \* longest transcript buffer, in the specifications of the live session
MaxStrBoth == 1      \* longest transcript buffer, in the specifications with both pipelines
MaxFrames == 1       \* captured frames waiting for one session promise

NULL == 0
SessionIds == 1..MaxSessions

VARIABLES
  status,            \* useState status
  logs,              \* useState logs
  outputAnalyser,    \* useState outputAnalyser: NULL or the session whose context made it
  inputContextRef, outputContextRef, streamRef, processorRef,
  nextStartTimeRef, sourcesRef, activeSessionRef,
  recognitionRef, isProcessingRef,
  currentInputRef, currentOutputRef,
  envApiKey,         \* process.env.API_KEY (NoKey when it is not set)
  envSpeech,         \* window.SpeechRecognition (or the webkit one) exists
  nSessions,         \* sessions created so far
  provider,          \* provider[s]: the pipeline session s runs
  pc,                \* pc[s]: where the connect coroutine of s is suspended
  session,           \* session[s]: the remote live session of s
  sessionPromise,    \* sessionPromise[s]: the promise live.connect() returned to s
  queued,            \* queued[s]: frames whose send waits for sessionPromise[s] to settle
  baseUrl,           \* baseUrl[s]: the endpoint the completion requests of s go to
  inCtx, outCtx, fakeCtx,  \* the audio contexts of s
  stream, proc,      \* microphone stream and script processor of s
  procCtx,           \* procCtx[s]: the input context the processor of s was made in
  rec,               \* rec[s]: the recognition engine of s
  recStops,          \* stop() calls cleanup made on engine s
  turn,              \* turn[s]: the completion/synthesis exchanges of s still outstanding
  lastRequest,       \* the user message of the completion request issued last
  clock,             \* clock[s]: currentTime of the output context of s
  chunks,            \* inbound audio payloads, in delivery order
  frame,             \* what became of the captured audio frame handled last
  outDeltas,         \* output-transcription deltas delivered since the last boundary
  sinceInterrupt,    \* an interruption was handled and no audio payload came since
  tornDown           \* sessions 1..tornDown existed when disconnect() last ran

hookVars == <<status, logs, outputAnalyser, inputContextRef, outputContextRef,
              streamRef, processorRef, nextStartTimeRef, sourcesRef,
              activeSessionRef, recognitionRef, isProcessingRef,
              currentInputRef, currentOutputRef>>
envVars == <<envApiKey, envSpeech, nSessions, provider, pc, session, sessionPromise, queued,
             baseUrl, inCtx, outCtx, fakeCtx,
             stream, proc, procCtx, rec, recStops, turn, lastRequest, clock, chunks,
             frame, outDeltas, sinceInterrupt, tornDown>>
vars == <<hookVars, envVars>>
envConst == <<envApiKey, envSpeech>>

audioRefs == <<inputContextRef, outputContextRef, streamRef, processorRef>>
audioEnv == <<inCtx, outCtx, stream, proc, procCtx>>
playback == <<nextStartTimeRef, sourcesRef, chunks, sinceInterrupt>>
buffers == <<currentInputRef, currentOutputRef, outDeltas>>
turnVars == <<recognitionRef, isProcessingRef, rec, recStops, turn, lastRequest,
              fakeCtx>>

\* ---------------------------------------------------------------- helpers
Max(a, b) == IF a >= b THEN a ELSE b

\* addLog: append one entry (sender, message) to the log.
addLog(l, sender, message) == Append(l, [sender |-> sender, message |-> message])

\* String.prototype.trim on a text written as a sequence of characters.
RECURSIVE TrimLeft(_)
TrimLeft(t) == IF t # <<>> /\ Head(t) = " " THEN TrimLeft(Tail(t)) ELSE t
RECURSIVE TrimRight(_)
TrimRight(t) ==
  IF t # <<>> /\ t[Len(t)] = " " THEN TrimRight(SubSeq(t, 1, Len(t) - 1)) ELSE t
Trim(t) == TrimRight(TrimLeft(t))

\* One more release call on a resource: its first close/stop, or a repeated one.
Released(st) == IF st \in {"closed", "closed2"} THEN "closed2" ELSE "closed"

\* An API key, as its characters: no key, a Groq key, a key of another vendor.
NoKey == <<>>
Keys == {NoKey, <<"g", "s", "k", "_", "k">>, <<"k">>}

\* ---------------------------------------------------------------- Init
Init ==
  /\ status = "DISCONNECTED"
  /\ logs = <<>>
  /\ outputAnalyser = NULL
  /\ inputContextRef = NULL /\ outputContextRef = NULL
  /\ streamRef = NULL /\ processorRef = NULL
  /\ nextStartTimeRef = 0
  /\ sourcesRef = {}
  /\ activeSessionRef = NULL
  /\ recognitionRef = NULL
  /\ isProcessingRef = FALSE
  /\ currentInputRef = <<>> /\ currentOutputRef = <<>>
  /\ envApiKey \in Keys
  /\ envSpeech \in BOOLEAN
  /\ nSessions = 0
  /\ provider = [s \in SessionIds |-> "none"]
  /\ pc = [s \in SessionIds |-> "none"]
  /\ session = [s \in SessionIds |-> "none"]
  /\ sessionPromise = [s \in SessionIds |-> "none"]
  /\ queued = [s \in SessionIds |-> <<>>]
  /\ baseUrl = [s \in SessionIds |-> "none"]
  /\ inCtx = [s \in SessionIds |-> "none"]
  /\ outCtx = [s \in SessionIds |-> "none"]
  /\ fakeCtx = [s \in SessionIds |-> "none"]
  /\ stream = [s \in SessionIds |-> "none"]
  /\ proc = [s \in SessionIds |-> "none"]
  /\ procCtx = [s \in SessionIds |-> NULL]
  /\ rec = [s \in SessionIds |-> "none"]
  /\ recStops = [s \in SessionIds |-> 0]
  /\ turn = [s \in SessionIds |-> <<>>]
  /\ lastRequest = <<>>
  /\ clock = [s \in SessionIds |-> 0]
  /\ chunks = <<>>
  /\ frame = "none"
  /\ outDeltas = <<>>
  /\ sinceInterrupt = FALSE
  /\ tornDown = 0

\* ---------------------------------------------------------------- cleanup
\* sourcesRef.forEach(stop); sourcesRef.clear()
cleanupSources ==
  /\ chunks' = [i \in DOMAIN chunks |->
                  IF i \in sourcesRef /\ chunks[i].st = "playing"
                  THEN [chunks[i] EXCEPT !.st = "stopped"] ELSE chunks[i]]
  /\ sourcesRef' = {}

\* close the audio contexts the two refs point to when cleanup runs (inRef,
\* outRef), and clear the refs
cleanupContexts(inRef, outRef) ==
  /\ inCtx' = IF inRef # NULL THEN [inCtx EXCEPT ![inRef] = Released(@)] ELSE inCtx
  /\ inputContextRef' = NULL
  /\ outCtx' = IF outRef # NULL THEN [outCtx EXCEPT ![outRef] = Released(@)] ELSE outCtx
  /\ outputContextRef' = NULL

\* Mutant of cleanupStream: the tracks are stopped but the ref is kept.
cleanupStreamKeepsRef ==
  /\ stream' = IF streamRef # NULL
               THEN [stream EXCEPT ![streamRef] = Released(@)] ELSE stream
  /\ streamRef' = streamRef

\* stop the microphone tracks, clear the ref
cleanupStream ==
  /\ stream' = IF streamRef # NULL
               THEN [stream EXCEPT ![streamRef] = Released(@)] ELSE stream
  /\ streamRef' = NULL

\* disconnect the processing node, clear the ref
cleanupProcessor ==
  /\ proc' = IF processorRef # NULL
             THEN [proc EXCEPT ![processorRef] = Released(@)] ELSE proc
  /\ procCtx' = procCtx
  /\ processorRef' = NULL

\* rec.stop() as the engine sees it: a started engine winds down (onend pending).
RecStopped(st) == IF st \in {"starting", "running"} THEN "stopping" ELSE st

\* Mutant of cleanupRecognition: the engine is stopped and the ref is kept.
cleanupRecognitionKeepsRef ==
  /\ rec' = IF recognitionRef # NULL
            THEN [rec EXCEPT ![recognitionRef] = RecStopped(@)] ELSE rec
  /\ recStops' = IF recognitionRef # NULL
                 THEN [recStops EXCEPT ![recognitionRef] = @ + 1] ELSE recStops
  /\ recognitionRef' = recognitionRef

\* clear recognitionRef first, then stop the engine it pointed to
cleanupRecognition ==
  /\ rec' = IF recognitionRef # NULL
            THEN [rec EXCEPT ![recognitionRef] = RecStopped(@)] ELSE rec
  /\ recStops' = IF recognitionRef # NULL
                 THEN [recStops EXCEPT ![recognitionRef] = @ + 1] ELSE recStops
  /\ recognitionRef' = NULL

\* speechSynthesis.cancel(): every queued or speaking utterance is dropped; its
\* end/error event is still to be delivered.
cleanupSynthesis ==
  turn' = [s \in SessionIds |->
             [i \in DOMAIN turn[s] |->
                IF turn[s][i] = "speaking" THEN "cancelled" ELSE turn[s][i]]]

\* cleanup() run when the context refs hold inRef and outRef
cleanupWith(inRef, outRef) ==
  /\ cleanupSources
  /\ cleanupContexts(inRef, outRef)
  /\ cleanupStream
  /\ cleanupProcessor
  /\ cleanupRecognition
  /\ cleanupSynthesis
  /\ activeSessionRef' = NULL
  /\ outputAnalyser' = NULL
  /\ status' = "DISCONNECTED"

\* cleanup() on the refs as the state has them
cleanup == cleanupWith(inputContextRef, outputContextRef)

\* ---------------------------------------------------------------- log texts
\* String.prototype.startsWith
StartsWith(t, prefix) == Len(t) >= Len(prefix) /\ SubSeq(t, 1, Len(prefix)) = prefix

\* const isGroq = config.apiKey.startsWith('gsk_')
isGroq(key) == StartsWith(key, <<"g", "s", "k", "_">>)
\* const baseUrl = isGroq ? ... : ...
BaseUrl(key) ==
  IF isGroq(key) THEN "https://api.groq.com/openai/v1" ELSE "https://api.openai.com/v1"

\* The texts addLog is called with. The two initialisation texts interpolate
\* config.modelId; the turn-based one names the vendor.
ModelId == "m"
MsgKeyMissing ==
  <<"Critical Error: API Key missing. Please ensure your API_KEY environment variable is set.">>
MsgInitGemini == <<"Initializing JAMES audio interface (", ModelId, ")...">>
MsgMic == <<"Accessing microphone feed...">>
MsgOnline == <<"Uplink established. James is online.">>
MsgInterruption == <<"Interruption detected.">>
MsgClosed == <<"Connection closed.">>
MsgUnavailable ==
  <<"Error: Service Unavailable. The model server is currently overloaded or experiencing downtime. Please try again later.">>
MsgTerminating == <<"Terminating Uplink...">>
MsgNoSpeechApi ==
  <<"Error: Browser does not support Web Speech API required for non-Gemini providers.">>
MsgInitAdapter(key) ==
  <<"Initializing adapter for ", IF isGroq(key) THEN "Groq" ELSE "OpenAI", " (", ModelId, ")...">>
MsgListening == <<"James Online. Listening...">>
MsgMicDenied == <<"Error: Microphone access denied.">>
InitError(m) == <<"Init Error: ", m>>
SystemError(m) == <<"System Error: ", m>>
LlmError(m) == <<"LLM Error: ", m>>
InterruptedText(t) == t \o <<" -- [INTERRUPTED]">>

\* Failure texts the environment can raise during live-session setup.
ErrDenied == "Permission denied"
ErrUnavailable == "The service is currently unavailable."
SetupErrors == {ErrDenied, ErrUnavailable}
\* The messages of what new AudioContext() and createAnalyser() throw.
ErrContext == "AudioContext failed"
ErrAnalyser == "analyser failed"
\* errorMessage.includes("service is currently unavailable")
IncludesUnavailable(m) == m = ErrUnavailable

\* The entry the catch block of connectGemini logs for an error with message m.
CatchLog(l, m) == IF IncludesUnavailable(m)
                  THEN addLog(l, "system", MsgUnavailable)
                  ELSE addLog(l, "system", InitError(m))


\* ---------------------------------------------------------------- connect
\* An AIConfig: the provider selector and config.apiKey.
Configs == [provider : {"gemini", "openai"}, apiKey : Keys]

\* Mutant of ApiKeyResolved: the credential is never checked.
ApiKeyAssumed(cfg) == TRUE

\* const apiKey = config.apiKey || process.env.API_KEY
EffectiveKey(cfg) == IF cfg.apiKey # NoKey THEN cfg.apiKey ELSE envApiKey
\* if (!apiKey) ... return
ApiKeyResolved(cfg) == EffectiveKey(cfg) # NoKey

\* connect(): the credential is missing
ConnectNoKey(cfg) ==
  /\ ~ApiKeyResolved(cfg)
  /\ logs' = addLog(logs, "system", MsgKeyMissing)
  /\ status' = "ERROR"
  /\ UNCHANGED <<outputAnalyser, audioRefs, nextStartTimeRef, sourcesRef,
                 activeSessionRef, recognitionRef, isProcessingRef, buffers>>
  /\ UNCHANGED envVars

\* connectGemini up to the await of getUserMedia
ConnectGemini(cfg) ==
  /\ ApiKeyResolved(cfg)
  /\ cfg.provider = "gemini"
  /\ nSessions < MaxSessions
  /\ LET s == nSessions + 1 IN
     /\ nSessions' = s
     /\ provider' = [provider EXCEPT ![s] = "gemini"]
     /\ status' = "CONNECTING"
     /\ logs' = addLog(addLog(logs, "system", MsgInitGemini), "system", MsgMic)
     /\ inputContextRef' = s /\ inCtx' = [inCtx EXCEPT ![s] = "open"]
     /\ outputContextRef' = s /\ outCtx' = [outCtx EXCEPT ![s] = "open"]
     /\ outputAnalyser' = s
     /\ pc' = [pc EXCEPT ![s] = "awaitMic"]
  /\ UNCHANGED <<streamRef, processorRef, playback, activeSessionRef, buffers,
                 turnVars, envConst, frame, queued, sessionPromise, baseUrl, session, stream, proc, procCtx, clock, tornDown>>

\* getUserMedia resolves: the stream is stored, the remote session is requested
MicGranted(s) ==
  /\ pc[s] = "awaitMic"
  /\ pc' = [pc EXCEPT ![s] = "done"]
  /\ streamRef' = s /\ stream' = [stream EXCEPT ![s] = "live"]
  /\ session' = [session EXCEPT ![s] = "pending"]
  /\ sessionPromise' = [sessionPromise EXCEPT ![s] = "pending"]
  /\ activeSessionRef' = s
  /\ UNCHANGED <<status, logs, outputAnalyser, inputContextRef, outputContextRef,
                 processorRef, playback, buffers, turnVars, envConst, frame, queued, baseUrl, nSessions,
                 provider, inCtx, outCtx, proc, procCtx, clock, tornDown>>

\* Where the synchronous part of connectGemini can throw: at the construction
\* of the input context, at that of the output context, at createAnalyser; and
\* the messages the error can carry there.
ThrowPoints == {"inputContext", "outputContext", "analyser"}
ThrowErrors == {ErrContext, ErrAnalyser, ErrUnavailable}

\* connectGemini when it throws before the await: the catch block logs, sets
\* ERROR and runs cleanup.  The refs assigned before the throw hold contexts
\* made by this call, which cleanup closes in this same step (they are not
\* given a session number); the contexts those refs held before are left as
\* they are, with no ref to them.
ConnectGeminiThrows(cfg, at, err) ==
  /\ ApiKeyResolved(cfg)
  /\ cfg.provider = "gemini"
  /\ err \in {IF at = "analyser" THEN ErrAnalyser ELSE ErrContext, ErrUnavailable}
  /\ logs' = CatchLog(addLog(logs, "system", MsgInitGemini), err)
  /\ cleanupWith(IF at = "inputContext" THEN inputContextRef ELSE NULL,
                 IF at = "analyser" THEN NULL ELSE outputContextRef)
  /\ UNCHANGED <<nextStartTimeRef, sinceInterrupt, isProcessingRef, buffers, fakeCtx,
                 lastRequest, envConst, frame, queued, sessionPromise, baseUrl, nSessions, provider, pc, session, clock,
                 tornDown>>

\* getUserMedia rejects: the catch block logs, sets ERROR and runs cleanup
SetupFailed(s, err) ==
  /\ pc[s] = "awaitMic"
  /\ pc' = [pc EXCEPT ![s] = "done"]
  /\ logs' = CatchLog(logs, err)
  /\ cleanup
  /\ UNCHANGED <<nextStartTimeRef, sinceInterrupt, isProcessingRef, buffers, fakeCtx,
                 lastRequest, envConst, frame, queued, sessionPromise, baseUrl, nSessions, provider, session, clock, tornDown>>

\* disconnect(): log, then cleanup
Disconnect ==
  /\ logs' = addLog(logs, "system", MsgTerminating)
  /\ cleanup
  /\ tornDown' = nSessions
  /\ UNCHANGED <<nextStartTimeRef, sinceInterrupt, isProcessingRef, buffers, fakeCtx,
                 lastRequest, envConst, frame, queued, sessionPromise, baseUrl, nSessions, provider, pc, session, clock>>

\* ---------------------------------------------------------------- live session
\* onopen
OnOpen(s) ==
  /\ session[s] = "pending"
  /\ session' = [session EXCEPT ![s] = "open"]
  /\ logs' = addLog(logs, "system", MsgOnline)
  /\ status' = "CONNECTED"
  /\ currentInputRef' = <<>> /\ currentOutputRef' = <<>>
  /\ outDeltas' = <<>>
  /\ IF inputContextRef = NULL \/ streamRef = NULL
     THEN UNCHANGED <<processorRef, proc, procCtx>>
     ELSE /\ processorRef' = s
          /\ proc' = [proc EXCEPT ![s] = "connected"]
          /\ procCtx' = [procCtx EXCEPT ![s] = inputContextRef]
  /\ UNCHANGED <<outputAnalyser, inputContextRef, outputContextRef, streamRef,
                 playback, activeSessionRef, turnVars, envConst, frame, queued, sessionPromise, baseUrl, nSessions,
                 provider, pc, inCtx, outCtx, stream, clock, tornDown>>

\* onclose
OnClose(s) ==
  /\ session[s] \in {"pending", "open", "erred"}
  /\ session' = [session EXCEPT ![s] = "closed"]
  /\ logs' = addLog(logs, "system", MsgClosed)
  /\ status' = "DISCONNECTED"
  /\ UNCHANGED <<outputAnalyser, audioRefs, playback, activeSessionRef, buffers,
                 turnVars, envConst, frame, queued, sessionPromise, baseUrl, nSessions, provider, pc, audioEnv, clock,
                 tornDown>>

\* onerror
OnError(s) ==
  /\ session[s] \in {"pending", "open"}
  /\ session' = [session EXCEPT ![s] = "erred"]
  /\ logs' = addLog(logs, "system", SystemError("transport"))
  /\ status' = "ERROR"
  /\ UNCHANGED <<outputAnalyser, audioRefs, playback, activeSessionRef, buffers,
                 turnVars, envConst, frame, queued, sessionPromise, baseUrl, nSessions, provider, pc, audioEnv, clock,
                 tornDown>>

\* ---------------------------------------------------------------- onmessage
\* A LiveServerMessage: transcription deltas (<<>> when absent), turnComplete,
\* an audio payload (its decoded duration, 0 when absent), interrupted.
Msg(i, o, tc, a, intr) == [inT |-> i, outT |-> o, tc |-> tc, audio |-> a, intr |-> intr]
Deltas == {<<"a">>, <<" ">>}
\* Output transcription comes with a second letter, so that the order of the
\* deltas shows in the text.
OutputDeltas == Deltas \cup {<<"b">>}
\* Input transcription comes as one word at a time.
InputDeltas == {<<"a">>}
Durations == 1..MaxDur
TextMessages ==
  {Msg(d, <<>>, FALSE, 0, FALSE) : d \in InputDeltas}
  \cup {Msg(<<>>, d, FALSE, 0, FALSE) : d \in OutputDeltas}
  \cup {Msg(<<>>, <<>>, TRUE, 0, FALSE)}
  \cup {Msg(<<>>, <<>>, FALSE, 0, TRUE)}
AudioMessages ==
  {Msg(<<>>, <<>>, FALSE, a, FALSE) : a \in Durations}
  \cup {Msg(<<>>, <<>>, FALSE, 0, TRUE)}
  \cup {Msg(<<>>, <<>>, FALSE, 1, TRUE)}

\* Mutant of OutputAfter: the delta is put in front of the buffer.
OutputPrepended(m) == m.outT \o currentOutputRef

\* The buffers and the log after the transcription and turnComplete part.
InputAfter(m) == currentInputRef \o m.inT
OutputAfter(m) == currentOutputRef \o m.outT
FlushIn(m) == m.tc /\ Trim(InputAfter(m)) # <<>>
FlushOut(m) == m.tc /\ Trim(OutputAfter(m)) # <<>>
LogsAfterTurn(m) ==
  LET l1 == IF FlushIn(m) THEN addLog(logs, "user", Trim(InputAfter(m))) ELSE logs
  IN IF FlushOut(m) THEN addLog(l1, "ai", Trim(OutputAfter(m))) ELSE l1
OutputAfterTurn(m) == IF FlushOut(m) THEN <<>> ELSE OutputAfter(m)
\* The output deltas delivered since the last boundary, this message included.
DeltasAfter(m) == IF m.tc THEN <<>> ELSE outDeltas \o m.outT

\* nextStartTimeRef.current = Math.max(nextStartTimeRef.current, ctx.currentTime)
CursorAtArrival(ctx) == Max(nextStartTimeRef, clock[ctx])

\* The interrupted part of onmessage, run on the log l, the output buffer out,
\* the chunks ch and the registry srcs the earlier parts of the handler left.
Interrupted(l, out, ch, srcs) ==
  /\ logs' = LET l1 == addLog(l, "system", MsgInterruption)
             IN IF Trim(out) # <<>>
                THEN addLog(l1, "ai", InterruptedText(Trim(out))) ELSE l1
  /\ currentOutputRef' = IF Trim(out) # <<>> THEN <<>> ELSE out
  /\ chunks' = [i \in DOMAIN ch |->
                  IF i \in srcs /\ ch[i].st = "playing"
                  THEN [ch[i] EXCEPT !.st = "stopped"] ELSE ch[i]]
  /\ sourcesRef' = {}
  /\ nextStartTimeRef' = 0
  /\ outDeltas' = <<>>
  /\ sinceInterrupt' = TRUE

\* onmessage up to the await of decodeAudioData, or to its end when the message
\* carries no audio (or there is no output context)
OnMessage(s, m) ==
  /\ session[s] = "open"
  /\ currentInputRef' = IF FlushIn(m) THEN <<>> ELSE InputAfter(m)
  /\ IF m.audio > 0 /\ outputContextRef # NULL
     THEN /\ nextStartTimeRef' = CursorAtArrival(outputContextRef)
          /\ chunks' = Append(chunks, [sess |-> s, ctx |-> outputContextRef,
                                       dur |-> m.audio, intr |-> m.intr,
                                       st |-> "decoding", ord |-> 0,
                                       when |-> 0, from |-> 0])
          /\ sinceInterrupt' = FALSE
          /\ logs' = LogsAfterTurn(m)
          /\ currentOutputRef' = OutputAfterTurn(m)
          /\ outDeltas' = DeltasAfter(m)
          /\ UNCHANGED sourcesRef
     ELSE IF m.intr
          THEN Interrupted(LogsAfterTurn(m), OutputAfterTurn(m), chunks, sourcesRef)
          ELSE /\ logs' = LogsAfterTurn(m)
               /\ currentOutputRef' = OutputAfterTurn(m)
               /\ outDeltas' = DeltasAfter(m)
               /\ UNCHANGED playback
  /\ UNCHANGED <<status, outputAnalyser, audioRefs, activeSessionRef, turnVars,
                 envConst, frame, queued, sessionPromise, baseUrl, nSessions, provider, pc, session, audioEnv, clock,
                 tornDown>>

\* AudioBufferSourceNode.start(when): a start time already past plays at once.
PlaysFrom(when, ctx) == Max(when, clock[ctx])

\* How many chunks were handed to source.start so far.
NumScheduled == Cardinality({k \in DOMAIN chunks : chunks[k].ord > 0})

\* The chunk as scheduled by source.start(nextStartTimeRef.current)
Scheduled(c) == [c EXCEPT !.st = "playing", !.ord = NumScheduled + 1,
                          !.when = nextStartTimeRef,
                          !.from = PlaysFrom(nextStartTimeRef, c.ctx)]

\* decodeAudioData: an asynchronous decode; while it is awaited other callbacks
\* run and the clock moves on, and it ends with a buffer or by throwing.
DecodeOutcomes == {"decoded", "failed"}

\* onmessage after the await: the decode of chunk i resolved or threw, then the
\* interrupted part of the same message
DecodeDone(i, outcome) ==
  /\ i \in DOMAIN chunks
  /\ chunks[i].st = "decoding"
  /\ LET c == chunks[i]
         ok == outcome = "decoded"
         ch1 == IF ok THEN [chunks EXCEPT ![i] = Scheduled(c)]
                      ELSE [chunks EXCEPT ![i].st = "failed"]
         srcs1 == IF ok THEN sourcesRef \cup {i} ELSE sourcesRef
         cur1 == IF ok THEN nextStartTimeRef + c.dur ELSE nextStartTimeRef
     IN IF c.intr
        THEN Interrupted(logs, currentOutputRef, ch1, srcs1)
        ELSE /\ chunks' = ch1
             /\ sourcesRef' = srcs1
             /\ nextStartTimeRef' = cur1
             /\ UNCHANGED <<logs, currentOutputRef, outDeltas, sinceInterrupt>>
  /\ UNCHANGED <<status, outputAnalyser, audioRefs, activeSessionRef, currentInputRef,
                 turnVars, envConst, frame, queued, sessionPromise, baseUrl, nSessions, provider, pc, session, audioEnv,
                 clock, tornDown>>

\* source.onended: a chunk played to its end is removed from the registry
SourceEnded(i) ==
  /\ i \in DOMAIN chunks
  /\ chunks[i].st = "playing"
  /\ outCtx[chunks[i].ctx] = "open"
  /\ clock[chunks[i].ctx] >= chunks[i].from + chunks[i].dur
  /\ chunks' = [chunks EXCEPT ![i].st = "ended"]
  /\ sourcesRef' = sourcesRef \ {i}
  /\ UNCHANGED <<status, logs, outputAnalyser, audioRefs, nextStartTimeRef,
                 sinceInterrupt, activeSessionRef, buffers, turnVars, envConst, frame, queued, sessionPromise, baseUrl,
                 nSessions, provider, pc, session, audioEnv, clock, tornDown>>

\* the clock of a running output context advances
Tick(s) ==
  /\ outCtx[s] = "open"
  /\ clock[s] < MaxTime
  /\ clock' = [clock EXCEPT ![s] = @ + 1]
  /\ UNCHANGED <<hookVars, outDeltas, envConst, frame, queued, sessionPromise, baseUrl, nSessions, provider, pc, session, audioEnv,
                 fakeCtx, rec, recStops, lastRequest, turn, chunks, sinceInterrupt, tornDown>>

\* session.sendRealtimeInput: the call returns, or it throws; the state of the
\* remote session does not decide which
SendOutcomes == {"sent", "failed"}

\* What becomes of a frame whose send runs when sessionPromise[s] is settled:
\* on a rejected promise the then-callback is skipped and the catch runs.
SendResult(s, outcome) == IF sessionPromise[s] = "rejected" THEN "failed" ELSE outcome

\* Mutant of AudioProcess: the failure of a send is not caught but handled as
\* a session error.
AudioProcessUncaught(s, outcome) ==
  /\ proc[s] = "connected" /\ inCtx[procCtx[s]] = "open"
  /\ IF sessionPromise[s] = "pending"
     THEN /\ Len(queued[s]) < MaxFrames
          /\ queued' = [queued EXCEPT ![s] = Append(@, outcome)]
          /\ UNCHANGED <<frame, status>>
     ELSE /\ frame' = SendResult(s, outcome)
          /\ status' = IF SendResult(s, outcome) = "failed" THEN "ERROR" ELSE status
          /\ UNCHANGED queued
  /\ UNCHANGED <<logs, outputAnalyser, audioRefs, nextStartTimeRef, sourcesRef,
                 activeSessionRef, recognitionRef, isProcessingRef, currentInputRef,
                 currentOutputRef, envConst, sessionPromise, baseUrl, nSessions,
                 provider, pc, session, audioEnv, fakeCtx, rec, recStops, lastRequest,
                 turn, clock, chunks, outDeltas, sinceInterrupt, tornDown>>

\* scriptProcessor.onaudioprocess: one captured frame is encoded and its send
\* is registered on the session promise.  While the promise is pending the send
\* waits (outcome is what it will come to); on a settled promise it runs before
\* any other callback, and a failure is caught and ignored
AudioProcess(s, outcome) ==
  /\ proc[s] = "connected" /\ inCtx[procCtx[s]] = "open"
  /\ IF sessionPromise[s] = "pending"
     THEN /\ Len(queued[s]) < MaxFrames
          /\ queued' = [queued EXCEPT ![s] = Append(@, outcome)]
          /\ UNCHANGED frame
     ELSE /\ frame' = SendResult(s, outcome)
          /\ UNCHANGED queued
  /\ UNCHANGED <<hookVars, envConst, sessionPromise, baseUrl, nSessions, provider, pc,
                 session, audioEnv, fakeCtx, rec, recStops, lastRequest, turn, clock,
                 chunks, outDeltas, sinceInterrupt, tornDown>>

\* How the promise of live.connect() can settle.
Settlements == {"resolved", "rejected"}

\* The promise live.connect() returned to s settles: the sends registered on
\* it run in the order they were registered, whatever happened to the hook
\* since; frame is the outcome of the send that ran last
SessionSettled(s, how) ==
  /\ sessionPromise[s] = "pending"
  /\ sessionPromise' = [sessionPromise EXCEPT ![s] = how]
  /\ frame' = IF queued[s] = <<>> THEN frame
              ELSE IF how = "rejected" THEN "failed" ELSE queued[s][Len(queued[s])]
  /\ queued' = [queued EXCEPT ![s] = <<>>]
  /\ UNCHANGED <<hookVars, envConst, baseUrl, nSessions, provider, pc, session,
                 audioEnv, fakeCtx, rec, recStops, lastRequest, turn, clock, chunks,
                 outDeltas, sinceInterrupt, tornDown>>

\* ---------------------------------------------------------------- turn-based
\* What the try block of connectOpenAI comes to: it runs to its end, or one of
\* new SpeechRecognition(), recognition.start(), new AudioContext(),
\* ctx.createAnalyser() throws.
TryOutcomes == {"ok", "noEngine", "noStart", "noContext", "noAnalyser"}
ErrEngine == "SpeechRecognition failed"
ErrStart == "start failed"
ThrownMessage(outcome) ==
  IF outcome = "noEngine" THEN ErrEngine
  ELSE IF outcome = "noStart" THEN ErrStart
  ELSE IF outcome = "noContext" THEN ErrContext ELSE ErrAnalyser

\* The try block run in session s on the log l and the status st, with its
\* catch: what was assigned before the throw stays, the error is logged and the
\* status set to ERROR; nothing is released.
OpenAISetup(s, outcome, l, st) ==
  /\ recognitionRef' = IF outcome = "noEngine" THEN recognitionRef ELSE s
  /\ rec' = [rec EXCEPT ![s] = IF outcome = "noEngine" THEN @
                                ELSE IF outcome = "noStart" THEN "idle"
                                ELSE "starting"]
  /\ fakeCtx' = IF outcome \in {"ok", "noAnalyser"}
                THEN [fakeCtx EXCEPT ![s] = "open"] ELSE fakeCtx
  /\ outputAnalyser' = IF outcome = "ok" THEN s ELSE outputAnalyser
  /\ logs' = IF outcome = "ok" THEN l
             ELSE addLog(l, "system", InitError(ThrownMessage(outcome)))
  /\ status' = IF outcome = "ok" THEN st ELSE "ERROR"

\* connectOpenAI without a recognition capability
ConnectOpenAINoSpeech(cfg) ==
  /\ ApiKeyResolved(cfg)
  /\ cfg.provider # "gemini"
  /\ ~envSpeech
  /\ logs' = addLog(logs, "system", MsgNoSpeechApi)
  /\ status' = "ERROR"
  /\ UNCHANGED <<outputAnalyser, audioRefs, nextStartTimeRef, sourcesRef,
                 activeSessionRef, recognitionRef, isProcessingRef, buffers>>
  /\ UNCHANGED envVars

\* connectOpenAI: to the end when the voices are loaded, else to the await
ConnectOpenAI(cfg, voicesLoaded, outcome) ==
  /\ ApiKeyResolved(cfg)
  /\ cfg.provider # "gemini"
  /\ envSpeech
  /\ nSessions < MaxSessions
  /\ LET s == nSessions + 1 IN
     /\ nSessions' = s
     /\ provider' = [provider EXCEPT ![s] = "openai"]
     /\ baseUrl' = [baseUrl EXCEPT ![s] = BaseUrl(EffectiveKey(cfg))]
     /\ LET l == addLog(logs, "system", MsgInitAdapter(EffectiveKey(cfg))) IN
        IF voicesLoaded
        THEN /\ OpenAISetup(s, outcome, l, "CONNECTING")
             /\ pc' = [pc EXCEPT ![s] = "done"]
        ELSE /\ outcome = "ok"   \* the try block is not reached in this step
             /\ pc' = [pc EXCEPT ![s] = "awaitVoices"]
             /\ status' = "CONNECTING"
             /\ logs' = l
             /\ UNCHANGED <<recognitionRef, rec, fakeCtx, outputAnalyser>>
  /\ UNCHANGED <<audioRefs, playback, activeSessionRef, buffers, isProcessingRef,
                 recStops, lastRequest, turn, envConst, frame, queued, sessionPromise,
                 session, audioEnv, clock, tornDown>>

\* voiceschanged fired or the one-second timeout ran out
VoicesReady(s, outcome) ==
  /\ pc[s] = "awaitVoices"
  /\ pc' = [pc EXCEPT ![s] = "done"]
  /\ OpenAISetup(s, outcome, logs, status)
  /\ UNCHANGED <<audioRefs, playback, activeSessionRef, buffers,
                 isProcessingRef, recStops, lastRequest, turn, envConst, frame, queued, sessionPromise, baseUrl, nSessions, provider,
                 session, audioEnv, clock, tornDown>>

\* recognition.start(): starts an engine at rest; on a started one it throws
\* and the throw is swallowed
RecStarted(st) == IF st = "idle" THEN "starting" ELSE st

\* recognition.onstart
RecOnStart(s) ==
  /\ rec[s] = "starting"
  /\ rec' = [rec EXCEPT ![s] = "running"]
  /\ status' = "CONNECTED"
  /\ logs' = addLog(logs, "system", MsgListening)
  /\ UNCHANGED <<outputAnalyser, audioRefs, playback, activeSessionRef, buffers,
                 recognitionRef, isProcessingRef, recStops, lastRequest, turn, fakeCtx, envConst, frame, queued, sessionPromise, baseUrl,
                 nSessions, provider, pc, session, audioEnv, clock, tornDown>>

RecErrors == {"no-speech", "aborted", "not-allowed", "network"}
\* Mutant of Benign: every error code is taken for an expected one.
BenignAll(code) == TRUE

\* event.error === 'no-speech' || event.error === 'aborted'
Benign(code) == code \in {"no-speech", "aborted"}

\* recognition.onerror; the engine ends after an error
RecOnError(s, code) ==
  /\ rec[s] \in {"starting", "running"}
  /\ rec' = [rec EXCEPT ![s] = "stopping"]
  /\ IF ~Benign(code) /\ code = "not-allowed"
     THEN /\ logs' = addLog(logs, "system", MsgMicDenied)
          /\ status' = "ERROR"
     ELSE UNCHANGED <<logs, status>>
  /\ UNCHANGED <<outputAnalyser, audioRefs, playback, activeSessionRef, buffers,
                 recognitionRef, isProcessingRef, recStops, lastRequest, turn, fakeCtx, envConst, frame, queued, sessionPromise, baseUrl,
                 nSessions, provider, pc, session, audioEnv, clock, tornDown>>

\* Mutant of KeepAlive: onend never restarts the engine.
KeepAliveNever(s) == FALSE

\* recognitionRef.current === recognition && !isProcessingRef.current
KeepAlive(s) == recognitionRef = s /\ ~isProcessingRef

\* recognition.onend: the engine stopped (after stop(), an error, or by itself)
RecOnEnd(s) ==
  /\ rec[s] \in {"running", "stopping"}
  /\ rec' = [rec EXCEPT ![s] = IF KeepAlive(s) THEN RecStarted("idle") ELSE "idle"]
  /\ UNCHANGED <<hookVars, outDeltas, envConst, frame, queued, sessionPromise, baseUrl, nSessions, provider, pc, session, audioEnv,
                 fakeCtx, recStops, lastRequest, turn, clock, chunks, sinceInterrupt, tornDown>>

\* What the engine can recognise: a word, a blank, a word after a blank.
Transcripts == Deltas \cup {<<" ", "a">>}

\* A recognition result: the last result's isFinal and transcript.
Results == {[final |-> f, text |-> x] : f \in BOOLEAN, x \in Transcripts}

\* Mutant of ResultIgnored: the early return is missing.
ResultNeverIgnored == FALSE

\* if (isProcessingRef.current) return;
ResultIgnored == isProcessingRef
\* isFinal && text.trim().length > 0
ResultAccepted(r) == r.final /\ Len(Trim(r.text)) > 0

\* recognition.onresult up to the await of fetch; the request carries the
\* transcript as its only user message
RecOnResult(s, r) ==
  /\ rec[s] \in {"running", "stopping"}
  /\ IF ~ResultIgnored /\ ResultAccepted(r)
     THEN /\ logs' = addLog(logs, "user", r.text)
          /\ isProcessingRef' = TRUE
          /\ rec' = [rec EXCEPT ![s] = RecStopped(@)]
          /\ turn' = [turn EXCEPT ![s] = Append(@, "fetch")]
          /\ lastRequest' = r.text
     ELSE UNCHANGED <<logs, isProcessingRef, rec, turn, lastRequest>>
  /\ UNCHANGED <<status, outputAnalyser, audioRefs, playback, activeSessionRef,
                 buffers, recognitionRef, recStops, fakeCtx, envConst, frame, queued, sessionPromise, baseUrl, nSessions,
                 provider, pc, session, audioEnv, clock, tornDown>>

\* What the completion request can come back with: a response with text, one
\* without, a non-ok response with or without an upstream message, a network error.
ErrRateLimit == "rate limit exceeded"
ErrRequestFailed == "API Request Failed"
ErrFetch == "Failed to fetch"
AiText == <<"r">>
Responses == {[ok |-> TRUE, text |-> AiText], [ok |-> TRUE, text |-> <<>>],
              [ok |-> FALSE, text |-> <<ErrRateLimit>>], [ok |-> FALSE, text |-> <<>>],
              [ok |-> FALSE, text |-> <<ErrFetch>>]}
\* Mutant of ErrorMessage: the upstream message is dropped.
ErrorMessageGeneric(resp) == ErrRequestFailed

\* err.error?.message || 'API Request Failed' (a network error brings its own)
ErrorMessage(resp) == IF resp.text = <<>> THEN ErrRequestFailed ELSE resp.text[1]

\* Mutant of Speak: the flag is cleared and recognition restarted when the
\* utterance is handed to the synthesis, not when it ends.
SpeakAndResume(s, i) ==
  /\ turn' = [turn EXCEPT ![s][i] = "speaking"]
  /\ isProcessingRef' = FALSE
  /\ rec' = [rec EXCEPT ![s] = RecStarted(@)]

\* speechSynthesis.speak(utterance): the exchange goes on as an utterance; the
\* flag stays set until utterance.onend / onerror
Speak(s, i) ==
  /\ turn' = [turn EXCEPT ![s][i] = "speaking"]
  /\ UNCHANGED <<isProcessingRef, rec>>

Remove(q, i) == [j \in 1..(Len(q) - 1) |-> IF j < i THEN q[j] ELSE q[j + 1]]

\* onresult after the await: the exchange i of session s got its response
FetchDone(s, i, resp) ==
  /\ i \in DOMAIN turn[s]
  /\ turn[s][i] = "fetch"
  /\ IF resp.ok
     THEN /\ logs' = addLog(logs, "ai", resp.text)
          /\ IF resp.text # <<>>
             THEN Speak(s, i)
             ELSE /\ turn' = [turn EXCEPT ![s] = Remove(@, i)]
                  /\ isProcessingRef' = FALSE
                  /\ rec' = [rec EXCEPT ![s] = RecStarted(@)]
     ELSE /\ logs' = addLog(logs, "system", LlmError(ErrorMessage(resp)))
          /\ turn' = [turn EXCEPT ![s] = Remove(@, i)]
          /\ isProcessingRef' = FALSE
          /\ rec' = [rec EXCEPT ![s] = RecStarted(@)]
  /\ UNCHANGED <<status, outputAnalyser, audioRefs, playback, activeSessionRef,
                 buffers, recognitionRef, recStops, lastRequest, fakeCtx, envConst, frame, queued, sessionPromise, baseUrl, nSessions,
                 provider, pc, session, audioEnv, clock, tornDown>>

\* utterance.onend / utterance.onerror (ev), also for a cancelled utterance
UtteranceDone(s, i, ev) ==
  /\ i \in DOMAIN turn[s]
  /\ turn[s][i] \in {"speaking", "cancelled"}
  /\ ev \in {"end", "error"}
  /\ turn' = [turn EXCEPT ![s] = Remove(@, i)]
  /\ isProcessingRef' = FALSE
  /\ rec' = [rec EXCEPT ![s] = RecStarted(@)]
  /\ UNCHANGED <<status, logs, outputAnalyser, audioRefs, playback, activeSessionRef,
                 buffers, recognitionRef, recStops, lastRequest, fakeCtx, envConst, frame, queued, sessionPromise, baseUrl, nSessions,
                 provider, pc, session, audioEnv, clock, tornDown>>

\* connect(config): the credential check, then the provider's pipeline
Connect(cfg) ==
  \/ ConnectNoKey(cfg)
  \/ ConnectGemini(cfg)
  \/ \E at \in ThrowPoints, err \in ThrowErrors : ConnectGeminiThrows(cfg, at, err)
  \/ ConnectOpenAINoSpeech(cfg)
  \/ \E v \in BOOLEAN, o \in TryOutcomes : ConnectOpenAI(cfg, v, o)

\* ---------------------------------------------------------------- properties
Messages == TextMessages \cup AudioMessages

\* Every message onmessage can be handed: any of the fields, in any combination.
AllMessages ==
  {Msg(i, o, tc, a, intr) : i \in {<<>>} \cup InputDeltas, o \in {<<>>} \cup OutputDeltas,
                            tc \in BOOLEAN, a \in 0..MaxDur, intr \in BOOLEAN}

\* A callback that belongs to session s: a continuation of its connect call or
\* an event of an object that call created.
CallbackOf(s) ==
  \/ MicGranted(s)
  \/ \E e \in SetupErrors : SetupFailed(s, e)
  \/ \E o \in TryOutcomes : VoicesReady(s, o)
  \/ OnOpen(s) \/ OnClose(s) \/ OnError(s)
  \/ \E o \in SendOutcomes : AudioProcess(s, o)
  \/ \E how \in Settlements : SessionSettled(s, how)
  \/ \E m \in AllMessages : OnMessage(s, m)
  \/ \E i \in DOMAIN chunks, o \in DecodeOutcomes : chunks[i].sess = s /\ DecodeDone(i, o)
  \/ \E i \in DOMAIN chunks : chunks[i].sess = s /\ SourceEnded(i)
  \/ RecOnStart(s) \/ RecOnEnd(s)
  \/ \E c \in RecErrors : RecOnError(s, c)
  \/ \E r \in Results : RecOnResult(s, r)
  \/ \E i \in DOMAIN turn[s], r \in Responses : FetchDone(s, i, r)
  \/ \E i \in DOMAIN turn[s], ev \in {"end", "error"} : UtteranceDone(s, i, ev)

\* The step changed nothing a cancelled callback must leave alone.
Inert ==
  /\ status' = status
  /\ logs' = logs
  /\ sourcesRef' = sourcesRef
  /\ audioRefs' = audioRefs
  /\ recognitionRef' = recognitionRef
  /\ \A s \in SessionIds : rec'[s] = "starting" => rec[s] = "starting"

\* C1: after disconnect() has returned, every callback still in flight from a
\* session that disconnect tore down is a no-op: it leaves the status, the log,
\* the audio handle registry and the hardware refs as they are and does not
\* restart recognition.
C1_CancelledCallbacksInert ==
  [][\A s \in SessionIds : (s <= tornDown /\ CallbackOf(s)) => Inert]_vars

\* Chunk i is registered and playing (scheduled, not stopped, not ended).
Sounding(i) == i \in sourcesRef /\ chunks[i].st = "playing"

\* C2: of two chunks scheduled in the same output context, the one scheduled
\* later starts no earlier than the start of the other plus its duration, so
\* their playback intervals do not overlap.
C2_NoOverlap ==
  \A i \in DOMAIN chunks, j \in DOMAIN chunks :
    (Sounding(i) /\ Sounding(j) /\ chunks[i].ctx = chunks[j].ctx
       /\ chunks[i].ord < chunks[j].ord)
    => chunks[j].from >= chunks[i].from + chunks[i].dur

\* C3: once an interruption signal has been handled, and until the next audio
\* payload is delivered, the playback cursor is 0 and the registry of audio
\* handles is empty, whatever was in flight when the signal arrived.
C3_InterruptionResets ==
  sinceInterrupt => (nextStartTimeRef = 0 /\ sourcesRef = {})

\* Every ref of the hook is cleared, the status is DISCONNECTED and no
\* utterance is left speaking.
TornDownState ==
  /\ status = "DISCONNECTED"
  /\ outputAnalyser = NULL /\ activeSessionRef = NULL
  /\ inputContextRef = NULL /\ outputContextRef = NULL
  /\ streamRef = NULL /\ processorRef = NULL /\ recognitionRef = NULL
  /\ sourcesRef = {}
  /\ \A s \in SessionIds : \A i \in DOMAIN turn[s] : turn[s][i] # "speaking"

\* No resource got its release call from cleanup more than once.
OnceReleased ==
  \A s \in SessionIds :
    /\ inCtx[s] # "closed2" /\ outCtx[s] # "closed2"
    /\ stream[s] # "closed2" /\ proc[s] # "closed2"
    /\ recStops[s] <= 1

\* C4: disconnect() always ends in the torn-down state with no resource
\* released twice, and a disconnect() that starts in the torn-down state (the
\* second of two calls in a row) changes nothing but the log, which gets one
\* entry.
C4_DisconnectIdempotent ==
  [][Disconnect =>
       /\ TornDownState' /\ OnceReleased'
       /\ TornDownState =>
            /\ logs' = addLog(logs, "system", MsgTerminating)
            /\ UNCHANGED <<status, outputAnalyser, audioRefs, playback,
                           activeSessionRef, buffers, turnVars, audioEnv, session,
                           pc, clock>>]_vars

\* disconnect() was called twice with nothing logged in between, after a
\* session whose contexts and stream or engine it had to release.
C4_Witness ==
  /\ Len(logs) >= 2
  /\ logs[Len(logs)].message = MsgTerminating
  /\ logs[Len(logs) - 1].message = MsgTerminating
  /\ TornDownState
  /\ \E s \in SessionIds :
       \/ inCtx[s] = "closed" /\ outCtx[s] = "closed" /\ stream[s] = "closed"
       \/ recStops[s] = 1

\* No hardware of the live-session pipeline is held or referenced.
NoAudioHeld ==
  /\ outputAnalyser = NULL
  /\ inputContextRef = NULL /\ outputContextRef = NULL
  /\ streamRef = NULL /\ processorRef = NULL
  /\ \A s \in SessionIds :
       /\ inCtx[s] # "open" /\ outCtx[s] # "open"
       /\ stream[s] # "live" /\ proc[s] # "connected"

\* Everything any session acquired is released and unreferenced.
AllReleased ==
  /\ NoAudioHeld
  /\ sourcesRef = {}
  /\ \A i \in DOMAIN chunks : chunks[i].st # "playing"
  /\ recognitionRef = NULL
  /\ \A s \in SessionIds :
       /\ rec[s] \notin {"starting", "running"}
       /\ fakeCtx[s] # "open"
       /\ \A i \in DOMAIN turn[s] : turn[s][i] # "speaking"

\* C5: after disconnect(), from any status and on either pipeline, every
\* resource the session acquired is released and its ref cleared (audio handles,
\* audio contexts including the turn-based pipeline's, microphone, processing
\* node, recognition engine, synthesis, analyser) and the status is DISCONNECTED.
C5_DisconnectReleasesAll ==
  [][Disconnect => (AllReleased' /\ status' = "DISCONNECTED")]_vars

\* A failure while session s is being set up: the microphone is refused, or
\* the remote session reports an error before it opened.
SetupFailure(s) ==
  \/ \E e \in SetupErrors : SetupFailed(s, e)
  \/ session[s] = "pending" /\ OnError(s)

\* C6: a setup-time failure of the live-session pipeline appends a system log
\* entry, leaves the status at ERROR and leaves no audio context, microphone
\* stream or analyser held.
C6_SetupFailureHandled ==
  [][\A s \in SessionIds :
       SetupFailure(s) =>
         /\ Len(logs') = Len(logs) + 1
         /\ logs'[Len(logs')].sender = "system"
         /\ status' = "ERROR"
         /\ NoAudioHeld']_vars

\* C7: connect(config) with an empty credential and no fallback credential
\* appends exactly one system entry about the missing credential, sets the
\* status to ERROR and acquires nothing: every ref and every resource is as
\* before.
C7_MissingCredential ==
  [][\A cfg \in Configs :
       (cfg.apiKey = NoKey /\ envApiKey = NoKey /\ Connect(cfg)) =>
         /\ logs' = addLog(logs, "system", MsgKeyMissing)
         /\ status' = "ERROR"
         /\ UNCHANGED <<outputAnalyser, audioRefs, playback, activeSessionRef,
                        buffers, turnVars, audioEnv, session, nSessions, pc>>]_vars

\* connect() was refused for the missing credential.
C7_Witness ==
  /\ envApiKey = NoKey
  /\ status = "ERROR"
  /\ logs # <<>>
  /\ logs[Len(logs)] = [sender |-> "system", message |-> MsgKeyMissing]

\* The steps that tear the session down on purpose: disconnect(), and the
\* teardown the catch block of connectGemini runs after a setup failure.
Teardown ==
  \/ Disconnect
  \/ \E s \in SessionIds, e \in SetupErrors : SetupFailed(s, e)
  \/ \E cfg \in Configs, at \in ThrowPoints, err \in ThrowErrors :
        ConnectGeminiThrows(cfg, at, err)

\* The status transitions the lifecycle state machine names.
SpecifiedTransition ==
  \/ status' = status
  \/ /\ status \in {"DISCONNECTED", "ERROR"}
     /\ status' \in {"CONNECTING", "ERROR"}
     /\ \E cfg \in Configs : Connect(cfg)
  \/ status = "CONNECTING" /\ status' = "CONNECTED"
  \/ status \in {"CONNECTING", "CONNECTED"} /\ status' = "ERROR"
  \/ /\ status' = "DISCONNECTED"
     /\ (Teardown \/ \E s \in SessionIds : OnClose(s))

\* C8: the status moves only along the specified transitions; once ERROR it
\* stays ERROR until the next connect() or disconnect(), and it never goes from
\* DISCONNECTED or ERROR to CONNECTED without a connect() in between.  (The
\* teardown after a setup failure is let through like a disconnect().)
C8_StatusTransitions ==
  [][/\ SpecifiedTransition
     /\ (status = "ERROR" /\ status' # "ERROR")
          => (Teardown \/ \E cfg \in Configs : Connect(cfg))
     /\ ~(status \in {"DISCONNECTED", "ERROR"} /\ status' = "CONNECTED")]_vars

\* The completion requests and utterances outstanding, over all sessions.
RECURSIVE SumLen(_, _)
SumLen(f, S) == IF S = {} THEN 0
                ELSE LET s == CHOOSE x \in S : TRUE IN Len(f[s]) + SumLen(f, S \ {s})
Outstanding == SumLen(turn, SessionIds)

\* C9: at every moment at most one completion request or utterance is
\* outstanding, and while one is outstanding the processing flag is set, so no
\* recognition result is accepted; also across disconnect() and a new connect().
C9_MutualExclusion ==
  /\ Outstanding <= 1
  /\ Outstanding = 1 => isProcessingRef

\* An exchange of a torn-down session is still outstanding, with the flag set,
\* while the engine of a newer session has been started.
C9_Witness ==
  \E s1 \in SessionIds, s2 \in SessionIds :
    /\ s1 <= tornDown /\ tornDown < s2
    /\ turn[s1] # <<>> /\ isProcessingRef
    /\ recognitionRef = s2 /\ rec[s2] \in {"starting", "running"}

\* C10: a recognition result that arrives while the processing flag is true is
\* ignored: no request is issued and the log, the flag and the recognition
\* state stay as they are.
C10_ResultIgnoredWhileProcessing ==
  [][\A s \in SessionIds, r \in Results :
       (isProcessingRef /\ RecOnResult(s, r)) =>
          UNCHANGED <<logs, isProcessingRef, rec, recognitionRef, turn, status>>]_vars

\* The flag is set, an exchange is outstanding and the engine is started, so a
\* result event is delivered here; the handler returns at once, and the state
\* after it is this same state.
C10_Witness ==
  /\ isProcessingRef
  /\ \E s \in SessionIds : rec[s] \in {"running", "stopping"} /\ turn[s] # <<>>

\* Session s is listening again: the flag is down and its engine was started.
Resumed(s) == ~isProcessingRef /\ rec[s] \in {"starting", "running"}

\* The steps C11 speaks of: a final non-blank transcript is accepted, a
\* successful response comes back.
AcceptStep(s, r) == ~ResultIgnored /\ ResultAccepted(r) /\ RecOnResult(s, r)
SuccessStep(s, i, resp) == resp.ok /\ FetchDone(s, i, resp)

\* C11: an accepted final non-blank transcript T appends one user entry T and
\* issues exactly one completion request whose user message is T; a successful
\* response R appends one ai entry R; and an exchange of the active session is
\* followed, in the end, by the flag being false with recognition started
\* again (the engine of a session that is no longer the active one, and a log
\* that has reached its bound, are left aside).
C11_AcceptedTranscriptTurn ==
  /\ [][\A s \in SessionIds, r \in Results :
          AcceptStep(s, r) =>
            /\ logs' = addLog(logs, "user", r.text)
            /\ turn' = [turn EXCEPT ![s] = Append(@, "fetch")]
            /\ lastRequest' = r.text]_vars
  /\ [][\A s \in SessionIds : \A i \in DOMAIN turn[s], resp \in Responses :
          SuccessStep(s, i, resp) => logs' = addLog(logs, "ai", resp.text)]_vars
  /\ \A s \in SessionIds :
       (turn[s] # <<>> /\ recognitionRef = s)
         ~> (Resumed(s) \/ recognitionRef # s \/ Len(logs) = MaxLogTurn)

\* In the only session there has been, a transcript was accepted and answered
\* (user entry, then ai entry), the utterance is over, the flag is down and the
\* engine is started again.
C11_Witness ==
  /\ \E k \in 1..(Len(logs) - 1) :
        logs[k].sender = "user" /\ logs[k + 1].sender = "ai"
        /\ logs[k].message = lastRequest /\ logs[k + 1].message = AiText
  /\ nSessions = 1 /\ tornDown = 0
  /\ recognitionRef = 1 /\ turn[1] = <<>> /\ Resumed(1)

\* The completion request of exchange i of session s failed.
FailureStep(s, i, resp) == ~resp.ok /\ FetchDone(s, i, resp)

\* The engine of s is started, or is winding down with an onend to come that
\* restarts it.
RestartUnderWay(s) ==
  \/ rec[s] \in {"starting", "running"}
  \/ rec[s] = "stopping" /\ KeepAlive(s)

\* C12: a failed completion request (non-success response or network error)
\* appends exactly one entry, a system entry that contains the failure message,
\* and no ai entry; it clears the processing flag, leaves the status as it is
\* and, in the active session, restarts recognition.
C12_FailedRequestAbsorbed ==
  [][\A s \in SessionIds : \A i \in DOMAIN turn[s], resp \in Responses :
       FailureStep(s, i, resp) =>
         /\ Len(logs') = Len(logs) + 1
         /\ SubSeq(logs', 1, Len(logs)) = logs
         /\ logs'[Len(logs')].sender = "system"
         /\ resp.text # <<>> =>
              \E k \in DOMAIN logs'[Len(logs')].message :
                 logs'[Len(logs')].message[k] = resp.text[1]
         /\ ~isProcessingRef'
         /\ status' = status
         /\ recognitionRef = s => RestartUnderWay(s)']_vars

\* The request of the only session was rejected with the upstream message
\* "rate limit exceeded": it is logged, the flag is down, the engine restarted.
C12_Witness ==
  /\ nSessions = 1 /\ recognitionRef = 1
  /\ logs # <<>>
  /\ logs[Len(logs)] = [sender |-> "system", message |-> LlmError(ErrRateLimit)]
  /\ ~isProcessingRef /\ turn[1] = <<>>
  /\ rec[1] \in {"starting", "running"}

\* Both transcript buffers are empty.
BuffersEmpty == currentInputRef = <<>> /\ currentOutputRef = <<>>

\* The handler of a message without audio ran to its end on a turn-complete or
\* interruption boundary.
BoundaryStep(s, m) == (m.tc \/ m.intr) /\ m.audio = 0 /\ OnMessage(s, m)

\* Every transcript entry (user or ai) the step appended has a non-blank text.
NoBlankEntry ==
  \A k \in (Len(logs) + 1)..Len(logs') :
     logs'[k].sender \in {"user", "ai"} => Trim(logs'[k].message) # <<>>

\* C13: both transcript buffers are empty right after the session opened and
\* right after a turn-complete or interruption boundary was handled, and no
\* step of the live session logs a transcript that is all whitespace.
C13_BuffersEmptyAfterBoundary ==
  [][\A s \in SessionIds :
       /\ OnOpen(s) => BuffersEmpty'
       /\ \A m \in TextMessages :
            /\ BoundaryStep(s, m) => BuffersEmpty'
            /\ OnMessage(s, m) => NoBlankEntry]_vars

\* A turn-complete message is handled while the output deltas delivered since
\* the last boundary are not blank.
TurnCompleteStep(s, m) ==
  m.tc /\ Trim(outDeltas \o m.outT) # <<>> /\ OnMessage(s, m)

\* The entries the step appended.
Appended == SubSeq(logs', Len(logs) + 1, Len(logs'))

\* The step appended exactly one ai entry, with the text t, after the user
\* entry when the input buffer was not blank, and left the output buffer empty.
FlushedAs(m, t) ==
  /\ Cardinality({k \in DOMAIN Appended : Appended[k].sender = "ai"}) = 1
  /\ Appended[Len(Appended)] = [sender |-> "ai", message |-> t]
  /\ Trim(InputAfter(m)) # <<>> =>
       Len(Appended) = 2 /\ Appended[1].sender = "user"
  /\ currentOutputRef' = <<>>

\* C14 as stated: a turn-complete signal after non-blank output deltas appends
\* exactly one ai entry whose message is the deltas concatenated in delivery
\* order, after the user entry if there is one, and empties the output buffer.
C14_FlushIsConcatenation ==
  [][\A s \in SessionIds, m \in TextMessages :
       TurnCompleteStep(s, m) => FlushedAs(m, outDeltas \o m.outT)]_vars

\* C14 amended: the message of the ai entry is the concatenation of the deltas
\* with leading and trailing whitespace trimmed off.
C14_FlushIsTrimmedConcatenation ==
  [][\A s \in SessionIds, m \in TextMessages :
       TurnCompleteStep(s, m) => FlushedAs(m, Trim(outDeltas \o m.outT))]_vars

\* The deltas "a" then "b" were flushed as one ai entry "ab" and the output
\* buffer is empty.
C14_Witness ==
  /\ logs # <<>>
  /\ logs[Len(logs)] = [sender |-> "ai", message |-> <<"a", "b">>]
  /\ currentOutputRef = <<>> /\ outDeltas = <<>>

\* C15: the analyser handle is present only while a session is active:
\* whenever the status is DISCONNECTED or ERROR the analyser is absent.
C15_AnalyserOnlyWhileActive ==
  status \in {"DISCONNECTED", "ERROR"} => outputAnalyser = NULL

\* A connect() call acquires its resources in this step: the audio contexts of
\* the live pipeline, or the recognition engine of the turn-based one.
AcquireStep ==
  \/ \E cfg \in Configs : ConnectGemini(cfg)
  \/ \E cfg \in Configs, o \in TryOutcomes \ {"noEngine"} : ConnectOpenAI(cfg, TRUE, o)
  \/ \E s \in SessionIds, o \in TryOutcomes \ {"noEngine"} : VoicesReady(s, o)

\* Nothing of an earlier session is left in the session state.
SessionStateReset ==
  /\ currentInputRef = <<>> /\ currentOutputRef = <<>>
  /\ nextStartTimeRef = 0
  /\ sourcesRef = {}
  /\ ~isProcessingRef

\* C16: when a connect() acquires its audio contexts or its recognition
\* engine, both transcript buffers are empty, the playback cursor is 0, the
\* set of audio handles is empty and the processing flag is false.
C16_ConnectResetsSessionState ==
  [][AcquireStep => SessionStateReset']_vars

\* A fatal runtime error is handled: the engine of s reports not-allowed, or
\* the open live session of s reports a transport error.
FatalErrorStep(s) ==
  \/ RecOnError(s, "not-allowed")
  \/ session[s] = "open" /\ OnError(s)

\* No microphone stream, audio context, processing node or recognition engine
\* is held or running.
NothingHeld ==
  /\ NoAudioHeld
  /\ recognitionRef = NULL
  /\ \A s \in SessionIds : rec[s] \notin {"starting", "running"} /\ fakeCtx[s] # "open"

\* C17: a fatal runtime error sets the status to ERROR and tears the session
\* down: after it no stream, context, node or engine is held or running.
C17_FatalErrorTearsDown ==
  [][\A s \in SessionIds : FatalErrorStep(s) => (status' = "ERROR" /\ NothingHeld')]_vars

\* The recognition engines running, and the microphone streams open.
RunningEngines == {s \in SessionIds : rec[s] \in {"starting", "running"}}
LiveStreams == {s \in SessionIds : stream[s] = "live"}

\* Every live resource is the one its ref (for the turn-based pipeline's
\* context: the analyser made from it) points to.
NoOrphan ==
  \A s \in SessionIds :
    /\ inCtx[s] = "open" => inputContextRef = s
    /\ outCtx[s] = "open" => outputContextRef = s
    /\ stream[s] = "live" => streamRef = s
    /\ proc[s] = "connected" => processorRef = s
    /\ s \in RunningEngines => recognitionRef = s
    /\ fakeCtx[s] = "open" => outputAnalyser = s

\* C18: at any time at most one recognition engine runs, at most one
\* microphone stream is open, and no live resource is without a ref to it.
C18_SingleActiveSession ==
  /\ Cardinality(RunningEngines) <= 1
  /\ Cardinality(LiveStreams) <= 1
  /\ NoOrphan


\* The send of a captured frame failed (when its handler ran, or when the
\* session promise it waited for settled); the decode of an inbound chunk
\* failed; the synthesis reported an error for an utterance.
FrameFailed(s) ==
  \/ \E o \in SendOutcomes :
        sessionPromise[s] # "pending" /\ SendResult(s, o) = "failed" /\ AudioProcess(s, o)
  \/ \E how \in Settlements :
        /\ how = "rejected" \/ \E k \in DOMAIN queued[s] : queued[s][k] = "failed"
        /\ queued[s] # <<>>
        /\ SessionSettled(s, how)
DecodeFailed(i) == DecodeDone(i, "failed")
UtteranceError(s, i) == UtteranceDone(s, i, "error")

\* The capture goes on as it was: the processing nodes, the input contexts
\* they are in, the microphone streams, the refs to them and the remote
\* sessions are what they were.
CaptureGoesOn ==
  UNCHANGED <<proc, procCtx, inCtx, stream, processorRef, inputContextRef, streamRef,
              session>>

\* Playback goes on without chunk i: the remote session and the output context
\* are what they were, and every other chunk still being decoded stays so.
PlaybackGoesOn(i) ==
  /\ session' = session /\ outputContextRef' = outputContextRef
  /\ chunks'[i].st = "failed"
  /\ \A j \in DOMAIN chunks \ {i} : chunks[j].st = "decoding" => chunks'[j] = chunks[j]

\* The turns of session s go on without exchange i: the flag is down, the
\* other exchanges are kept, and in the active session recognition restarts.
TurnsGoOn(s, i) ==
  /\ ~isProcessingRef'
  /\ turn' = [turn EXCEPT ![s] = Remove(@, i)]
  /\ recognitionRef' = recognitionRef
  /\ recognitionRef = s => RestartUnderWay(s)'

\* C19: a failed send of a captured frame, a failed decode of an inbound chunk,
\* a failed completion request and a synthesis error each leave the status as
\* it is, and the session goes on with the following frames, chunks and turns.
C19_ItemErrorsAbsorbed ==
  [][/\ \A s \in SessionIds : FrameFailed(s) => (status' = status /\ CaptureGoesOn)
     /\ \A i \in DOMAIN chunks : DecodeFailed(i) => (status' = status /\ PlaybackGoesOn(i))
     /\ \A s \in SessionIds : \A i \in DOMAIN turn[s] :
          /\ \A resp \in Responses :
               FailureStep(s, i, resp) => (status' = status /\ TurnsGoOn(s, i))
          /\ UtteranceError(s, i) => (status' = status /\ TurnsGoOn(s, i))]_vars

\* On the connected live session the send of a frame failed and the decode of
\* a chunk failed; the session is open and its node is still capturing.
C19_Witness ==
  /\ status = "CONNECTED" /\ nSessions = 1 /\ session[1] = "open"
  /\ sessionPromise[1] = "resolved" /\ frame = "failed"
  /\ proc[1] = "connected" /\ inCtx[procCtx[1]] = "open"
  /\ \E i \in DOMAIN chunks : chunks[i].st = "failed"

\* The onend of engine s restarted it (otherwise the engine is at rest).
RestartedByOnEnd(s) == rec'[s] = "starting"

\* C20: when onend of an engine fires, the engine is restarted if and only if
\* it is the active recognition handle and the processing flag is false; an
\* engine that teardown stopped is never restarted by its onend.
C20_KeepAlive ==
  [][\A s \in SessionIds : RecOnEnd(s) =>
       /\ RestartedByOnEnd(s) <=> (recognitionRef = s /\ ~isProcessingRef)
       /\ ~RestartedByOnEnd(s) => rec'[s] = "idle"
       /\ recStops[s] > 0 => ~RestartedByOnEnd(s)]_vars

\* The only session was torn down before any result was accepted, the onend
\* that followed the stop() has fired, and the engine is at rest.
C20_Witness ==
  /\ nSessions = 1 /\ provider[1] = "openai" /\ tornDown = 1
  /\ recStops[1] = 1 /\ recognitionRef = NULL
  /\ lastRequest = <<>> /\ ~isProcessingRef /\ turn[1] = <<>>
  /\ rec[1] = "idle"

\* What the handler of a recognition error may touch stays as it was: the
\* state and refs of the hook and the exchanges under way.
HandlerStateKept == UNCHANGED <<hookVars, turn, lastRequest>>

\* Exactly one entry was appended to the log: a system entry with text m.
OneSystemEntry(m) == logs' = Append(logs, [sender |-> "system", message |-> m])

\* C21: a no-speech or aborted recognition error changes no state and logs
\* nothing; a not-allowed error appends one system entry and sets the status to
\* ERROR; any other code changes neither status, processing flag nor log.
C21_RecognitionErrorClasses ==
  [][\A s \in SessionIds :
       /\ \A code \in {"no-speech", "aborted"} :
            RecOnError(s, code) => HandlerStateKept
       /\ RecOnError(s, "not-allowed") =>
            (OneSystemEntry(MsgMicDenied) /\ status' = "ERROR")
       /\ \A code \in RecErrors \ {"no-speech", "aborted", "not-allowed"} :
            RecOnError(s, code) =>
              UNCHANGED <<status, isProcessingRef, logs>>]_vars

\* The engine of the only session reported not-allowed while it was listening:
\* the denial is the last log entry and the status is ERROR.
C21_Witness ==
  /\ nSessions = 1 /\ recognitionRef = 1 /\ rec[1] = "stopping"
  /\ status = "ERROR"
  /\ Len(logs) = 3
  /\ logs[2] = [sender |-> "system", message |-> MsgListening]
  /\ logs[3] = [sender |-> "system", message |-> MsgMicDenied]

\* No interruption was handled so far (each one logs its notice).
NeverInterrupted ==
  \A k \in DOMAIN logs : logs[k].message # MsgInterruption

\* Chunk i was handed to source.start.
WasScheduled(i) == chunks[i].ord > 0

\* C22: of two audio payloads of one session delivered with no interruption
\* between them, the one delivered first is scheduled to start no later than
\* the other, whichever decode completes first.
C22_DeliveryOrder ==
  NeverInterrupted =>
    \A i \in DOMAIN chunks, j \in DOMAIN chunks :
      (i < j /\ chunks[i].sess = chunks[j].sess /\ WasScheduled(i) /\ WasScheduled(j))
      => chunks[i].when <= chunks[j].when

\* The microphone stream, both audio contexts, the processing node and the
\* recognition engine: every ref is null and none of them is running.
HardwareReleased ==
  /\ inputContextRef = NULL /\ outputContextRef = NULL
  /\ streamRef = NULL /\ processorRef = NULL
  /\ recognitionRef = NULL
  /\ \A s \in SessionIds :
       /\ inCtx[s] # "open" /\ outCtx[s] # "open"
       /\ stream[s] # "live" /\ proc[s] # "connected"
       /\ rec[s] \notin {"starting", "running"}

\* C23: whenever the status is DISCONNECTED, however it was reached, no
\* hardware resource is held or running.
C23_DisconnectedHoldsNothing ==
  status = "DISCONNECTED" => HardwareReleased

\* A completion request or an utterance of the active turn-based session is
\* outstanding.
ActiveExchange == recognitionRef # NULL /\ turn[recognitionRef] # <<>>

\* C24: the processing flag is true only while an exchange of the currently
\* active turn-based session is outstanding.
C24_FlagOnlyDuringActiveExchange ==
  isProcessingRef => ActiveExchange

\* ---------------------------------------------------------------- specifications
\* The log, the list of inbound chunks and the transcript buffers grow without
\* bound in the hook.  A specification takes the steps that keep them within
\* its size: n log entries, k chunks, buffers of c characters before a flush.
LogWithin(n) == Len(logs') <= n

Lifecycle(n) ==
  \/ \E cfg \in Configs : ConnectNoKey(cfg) /\ LogWithin(n)
  \/ Disconnect /\ LogWithin(n)

LiveConnect(n) ==
  \/ \E cfg \in Configs : ConnectGemini(cfg) /\ LogWithin(n)
  \/ \E cfg \in Configs, at \in ThrowPoints, err \in ThrowErrors :
        ConnectGeminiThrows(cfg, at, err) /\ LogWithin(n)

LiveEvents(n) ==
  \/ \E s \in SessionIds : MicGranted(s)
  \/ \E s \in SessionIds, e \in SetupErrors : SetupFailed(s, e) /\ LogWithin(n)
  \/ \E s \in SessionIds : OnOpen(s) /\ LogWithin(n)
  \/ \E s \in SessionIds : OnClose(s) /\ LogWithin(n)
  \/ \E s \in SessionIds : OnError(s) /\ LogWithin(n)

LiveCore(n) == LiveConnect(n) \/ LiveEvents(n)

Playback(n, k) ==
  \/ \E s \in SessionIds, m \in AudioMessages :
        OnMessage(s, m) /\ LogWithin(n) /\ Len(chunks') <= k
  \/ \E i \in DOMAIN chunks, o \in DecodeOutcomes : DecodeDone(i, o) /\ LogWithin(n)
  \/ \E i \in DOMAIN chunks : SourceEnded(i)
  \/ \E s \in SessionIds : Tick(s)

Capture ==
  \/ \E s \in SessionIds, o \in SendOutcomes : AudioProcess(s, o)
  \/ \E s \in SessionIds, how \in Settlements : SessionSettled(s, how)

Transcript(n, c) ==
  \E s \in SessionIds, m \in TextMessages :
     /\ OnMessage(s, m) /\ LogWithin(n)
     /\ Len(InputAfter(m)) <= c /\ Len(OutputAfter(m)) <= c

TurnConnect(n) ==
  \/ \E cfg \in Configs : ConnectOpenAINoSpeech(cfg) /\ LogWithin(n)
  \/ \E cfg \in Configs, v \in BOOLEAN, o \in TryOutcomes :
        ConnectOpenAI(cfg, v, o) /\ LogWithin(n)

\* The completion request of an exchange comes back; an utterance ends.
Answered(n) ==
  \E s \in SessionIds : \E i \in DOMAIN turn[s], r \in Responses :
     FetchDone(s, i, r) /\ LogWithin(n)
Spoken ==
  \E s \in SessionIds : \E i \in DOMAIN turn[s], ev \in {"end", "error"} :
     UtteranceDone(s, i, ev)

TurnEvents(n) ==
  \/ \E s \in SessionIds, o \in TryOutcomes : VoicesReady(s, o) /\ LogWithin(n)
  \/ \E s \in SessionIds : RecOnStart(s) /\ LogWithin(n)
  \/ \E s \in SessionIds, c \in RecErrors : RecOnError(s, c) /\ LogWithin(n)
  \/ \E s \in SessionIds : RecOnEnd(s)
  \/ \E s \in SessionIds, r \in Results : RecOnResult(s, r) /\ LogWithin(n)
  \/ Answered(n)
  \/ Spoken

TurnNext(n) == TurnConnect(n) \/ TurnEvents(n)

\* The hook with both pipelines; connect() and disconnect() may be called at
\* any time.
Next ==
  \/ Lifecycle(MaxLogBoth) \/ LiveCore(MaxLogBoth) \/ Transcript(MaxLogBoth, MaxStrBoth)
  \/ Playback(MaxLogBoth, MaxChunksBoth) \/ Capture \/ TurnNext(MaxLogBoth)

\* The component that uses the hook follows the lifecycle state machine: it
\* calls connect() only while the status is DISCONNECTED or ERROR (disconnect()
\* it may call at any time).
CallerMayConnect == status \in {"DISCONNECTED", "ERROR"}

\* connect() called by such a component.
CallerConnect(n) ==
  \/ \E cfg \in Configs : CallerMayConnect /\ ConnectNoKey(cfg) /\ LogWithin(n)
  \/ \E cfg \in Configs : CallerMayConnect /\ ConnectGemini(cfg) /\ LogWithin(n)
  \/ \E cfg \in Configs, at \in ThrowPoints, err \in ThrowErrors :
        CallerMayConnect /\ ConnectGeminiThrows(cfg, at, err) /\ LogWithin(n)
  \/ \E cfg \in Configs : CallerMayConnect /\ ConnectOpenAINoSpeech(cfg) /\ LogWithin(n)
  \/ \E cfg \in Configs, v \in BOOLEAN, o \in TryOutcomes :
        CallerMayConnect /\ ConnectOpenAI(cfg, v, o) /\ LogWithin(n)

\* The steps of Next when the caller keeps to that discipline.
NextCaller ==
  \/ CallerConnect(MaxLogBoth)
  \/ Disconnect /\ LogWithin(MaxLogBoth)
  \/ LiveEvents(MaxLogBoth)
  \/ Transcript(MaxLogBoth, MaxStrBoth) \/ Playback(MaxLogBoth, MaxChunksBoth) \/ Capture
  \/ TurnEvents(MaxLogBoth)

Spec == Init /\ [][Next]_vars
SpecCaller == Init /\ [][NextCaller]_vars
SpecLive == Init /\ [][Lifecycle(MaxLog) \/ LiveCore(MaxLog) \/ Playback(MaxLog, MaxChunks)]_vars
SpecText == Init /\ [][Lifecycle(MaxLog) \/ LiveCore(MaxLog) \/ Transcript(MaxLog, MaxStr)]_vars
SpecTurn == Init /\ [][Lifecycle(MaxLogTurn) \/ TurnNext(MaxLogTurn)]_vars

\* The turn-based pipeline with what its environment is sure to deliver: the
\* completion request resolves or rejects, the synthesis reports the end or an
\* error of every utterance, and an engine that was stopped fires onend.
TurnFairness ==
  /\ WF_vars(Answered(MaxLogTurn))
  /\ WF_vars(Spoken)
  /\ \A s \in SessionIds : WF_vars(rec[s] = "stopping" /\ RecOnEnd(s))
SpecTurnFair == SpecTurn /\ TurnFairness

====
